---- MODULE Spec2Model ----
(***************************************************************************)
(* Model of packages/bytebot-agent/src/openai/openai.service.ts:           *)
(* OpenAIService.generateMessage with its Responses request, its Chat      *)
(* Completions fallback, and the three conversions formatMessagesForOpenAI,*)
(* formatMessagesForChat and formatOpenAIResponse.                         *)
(*                                                                         *)
(* JavaScript strings that the code builds, joins, parses or tests for     *)
(* emptiness are sequences of string tokens (the empty string is <<>>);    *)
(* identifiers and enum values are plain strings.                          *)
(***************************************************************************)
EXTENDS Integers, Sequences, FiniteSets, TLC

VARIABLES
    base,        \* configured OPENAI_API_BASE || OPENAI_BASE_URL || ''
    pc,          \* position of the generateMessage call
    callNo,      \* how many calls have been started on this service
    args,        \* arguments of the call in progress
    aborted,     \* state of the caller's AbortSignal
    requests,    \* network requests issued by the call, in order
    primary,     \* what the awaited responses.create produced
    fallback,    \* what the awaited chat.completions.create produced
    error,       \* `error` bound by the outer catch
    outcome,     \* what the call returned or threw
    log,         \* logger.warn / logger.log / logger.error records of the call
    firstCall,   \* the first completed call: arguments, replies, requests, outcome
    fn,          \* conversion applied to `input` ("none" before it is applied)
    input,       \* input of a conversion
    output       \* result of a conversion

vars == <<base, pc, callNo, args, aborted, requests, primary, fallback, error,
          outcome, log, firstCall, fn, input, output>>

callVars == <<base, pc, callNo, args, aborted, requests, primary, fallback,
              error, outcome, log, firstCall>>

convVars == <<fn, input, output>>

(***************************************************************************)
(* Bounds                                                                  *)
(***************************************************************************)
MaxMsgs == 2      \* messages in a generated conversation
MaxBlocks == 2    \* content blocks in a generated conversation, over all messages
MaxItems == 3     \* items in a generated provider output list
MaxCalls == 2     \* generateMessage calls on one service instance

(***************************************************************************)
(* Small helpers on sequences                                              *)
(***************************************************************************)
RECURSIVE Concat(_)
Concat(ss) == IF ss = <<>> THEN <<>> ELSE Head(ss) \o Concat(Tail(ss))

RECURSIVE Sum(_)
Sum(ns) == IF ns = <<>> THEN 0 ELSE Head(ns) + Sum(Tail(ns))

\* Array.prototype.join('\n') on an array of strings
RECURSIVE JoinNL(_)
JoinNL(ss) ==
    IF ss = <<>> THEN <<>>
    ELSE IF Len(ss) = 1 THEN ss[1]
    ELSE ss[1] \o <<"\n">> \o JoinNL(Tail(ss))

\* .filter(Boolean) on an array of strings: drops the empty ones
FilterBoolean(ss) == SelectSeq(ss, LAMBDA s : s # <<>>)

(***************************************************************************)
(* JSON texts and values.  A JSON text is a sequence of tokens; a value is *)
(* a primitive or a flat object whose members keep insertion order.        *)
(***************************************************************************)
StringTokens == {"\"a\"", "\"b\""}
NumberTokens == {"0", "1", "2", "-0", "1e400"}
PrimTokens == StringTokens \cup NumberTokens \cup {"null"}

Prim(p) == [kind |-> "prim", prim |-> p, members |-> <<>>]
Object(ms) == [kind |-> "object", prim |-> "", members |-> ms]
EmptyObject == Object(<<>>)

\* the value a primitive token denotes; for a number literal, the double: 1e400
\* overflows to Infinity, -0 is negative zero
ParsePrim(tok) == IF tok = "1e400" THEN "Infinity" ELSE tok

\* obj[k] = v on an ordinary object: an existing key keeps its position
Assign(ms, k, v) ==
    IF \E i \in 1..Len(ms) : ms[i].k = k
    THEN [i \in 1..Len(ms) |-> IF ms[i].k = k THEN [k |-> k, v |-> v] ELSE ms[i]]
    ELSE Append(ms, [k |-> k, v |-> v])

StripWs(text) == SelectSeq(text, LAMBDA t : t # " ")

ParseFail == [ok |-> FALSE, value |-> EmptyObject]

RECURSIVE ParseMembers(_, _)
ParseMembers(t, acc) ==
    IF Len(t) >= 3 /\ t[1] \in StringTokens /\ t[2] = ":" /\ t[3] \in PrimTokens
    THEN LET acc2 == Assign(acc, t[1], ParsePrim(t[3]))
         IN  IF Len(t) = 3 THEN [ok |-> TRUE, value |-> Object(acc2)]
             ELSE IF t[4] = "," THEN ParseMembers(SubSeq(t, 5, Len(t)), acc2)
             ELSE ParseFail
    ELSE ParseFail

\* JSON.parse(text); ok = FALSE stands for the SyntaxError it throws
JSONparse(text) ==
    LET t == StripWs(text)
    IN  IF Len(t) = 1 /\ t[1] \in PrimTokens
        THEN [ok |-> TRUE, value |-> Prim(ParsePrim(t[1]))]
        ELSE IF Len(t) >= 2 /\ t[1] = "{" /\ t[Len(t)] = "}"
        THEN IF Len(t) = 2 THEN [ok |-> TRUE, value |-> EmptyObject]
             ELSE ParseMembers(SubSeq(t, 2, Len(t) - 1), <<>>)
        ELSE ParseFail

\* a non-finite number is serialised as null, negative zero as 0
StringifyPrim(p) == IF p = "Infinity" THEN "null" ELSE IF p = "-0" THEN "0" ELSE p

RECURSIVE StringifyMembers(_)
StringifyMembers(ms) ==
    IF ms = <<>> THEN <<>>
    ELSE <<ms[1].k, ":", StringifyPrim(ms[1].v)>>
         \o (IF Len(ms) = 1 THEN <<>> ELSE <<",">> \o StringifyMembers(Tail(ms)))

\* JSON.stringify(value)
JSONstringify(value) ==
    IF value.kind = "prim" THEN <<StringifyPrim(value.prim)>>
    ELSE <<"{">> \o StringifyMembers(value.members) \o <<"}">>

RECURSIVE PrettyMembers(_)
PrettyMembers(ms) ==
    IF ms = <<>> THEN <<>>
    ELSE <<"  ", ms[1].k, ": ", StringifyPrim(ms[1].v)>>
         \o (IF Len(ms) = 1 THEN <<"\n">> ELSE <<",\n">> \o PrettyMembers(Tail(ms)))

\* JSON.stringify(value, null, 2)
JSONstringifyPretty(value) ==
    IF value.kind = "prim" THEN <<StringifyPrim(value.prim)>>
    ELSE IF value.members = <<>> THEN <<"{}">>
    ELSE <<"{\n">> \o PrettyMembers(value.members) \o <<"}">>

(***************************************************************************)
(* Internal content blocks (MessageContentBlock) and messages              *)
(***************************************************************************)
Text == "text"
ToolUse == "tool_use"
ToolResult == "tool_result"
Thinking == "thinking"
Image == "image"
UserAction == "user_action"

USER == "USER"
ASSISTANT == "ASSISTANT"
Roles == {USER, ASSISTANT}

TextBlock(t) == [type |-> Text, text |-> t]
ToolUseBlock(id, name, inp) == [type |-> ToolUse, id |-> id, name |-> name, input |-> inp]
ThinkingBlock(th, sig) == [type |-> Thinking, thinking |-> th, signature |-> sig]
ToolResultBlock(id, c) == [type |-> ToolResult, tool_use_id |-> id, content |-> c]
ImageBlock(mt, d) == [type |-> Image, source |-> [media_type |-> mt, data |-> d]]
UserActionBlock(c) == [type |-> UserAction, content |-> c]

isUserActionContentBlock(b) == b.type = UserAction
isImageContentBlock(b) == b.type = Image
isComputerToolUseContentBlock(b) ==
    b.type = ToolUse /\ b.name \in {"computer_click_mouse", "computer_screenshot"}

\* JSON.stringify(block) of a content block
RECURSIVE StringifyBlock(_)
StringifyBlock(b) ==
    CASE b.type = Text ->
           <<"{", "\"type\"", ":", "\"text\"", ",", "\"text\"", ":", "\"">> \o b.text \o <<"\"", "}">>
      [] b.type = ToolUse ->
           <<"{", "\"type\"", ":", "\"tool_use\"", ",", "\"id\"", ":", b.id, ",",
             "\"name\"", ":", b.name, ",", "\"input\"", ":">> \o JSONstringify(b.input) \o <<"}">>
      [] b.type = Image ->
           <<"{", "\"type\"", ":", "\"image\"", ",", "\"source\"", ":", "{",
             "\"media_type\"", ":", b.source.media_type, ",",
             "\"data\"", ":", b.source.data, "}", "}">>
      [] b.type = Thinking ->
           <<"{", "\"type\"", ":", "\"thinking\"", ",", "\"thinking\"", ":">> \o b.thinking
           \o <<",", "\"signature\"", ":", b.signature, "}">>
      [] OTHER ->
           <<"{", "\"type\"", ":", b.type, ",", "\"content\"", ":", "[">>
           \o Concat([i \in 1..Len(b.content) |->
                        (IF i = 1 THEN <<>> ELSE <<",">>) \o StringifyBlock(b.content[i])])
           \o <<"]", "}">>

(***************************************************************************)
(* formatMessagesForOpenAI: stored messages -> Responses API input items   *)
(***************************************************************************)
InputTextMessage(role, t) ==
    [type |-> "message", role |-> role,
     content |-> <<[type |-> IF role = "user" THEN "input_text" ELSE "output_text",
                    text |-> t]>>]

InputImageMessage(b) ==
    [type |-> "message", role |-> "user",
     content |-> <<[type |-> "input_image", detail |-> "high",
                    image_url |-> <<"data:", b.source.media_type, ";base64,", b.source.data>>]>>]

FunctionCallOutput(id, out) ==
    [type |-> "function_call_output", call_id |-> id, output |-> out]

\* one block of a message whose blocks are all user actions (lines 220-245)
UserActionItems(b) ==
    IF isComputerToolUseContentBlock(b)
    THEN <<InputTextMessage("user",
             <<"User performed action: ", b.name, "\n">> \o JSONstringifyPretty(b.input))>>
    ELSE IF isImageContentBlock(b) THEN <<InputImageMessage(b)>>
    ELSE <<>>

\* one content of a tool result (the forEach body, lines 304-331)
ToolResultContentItems(id, c) ==
    (IF c.type = Text THEN <<FunctionCallOutput(id, c.text)>> ELSE <<>>)
    \o (IF c.type = Image
        THEN <<FunctionCallOutput(id, <<"screenshot">>), InputImageMessage(c)>>
        ELSE <<>>)

\* a variant that ignores the role of the message
BlockItemsIgnoreRole(role, b) ==
    CASE b.type = Text -> <<InputTextMessage("user", b.text)>>
      [] b.type = ToolUse ->
           <<[type |-> "function_call", call_id |-> b.id, name |-> b.name,
              arguments |-> JSONstringify(b.input)]>>
      [] b.type = Thinking ->
           <<[type |-> "reasoning", id |-> b.signature,
              encrypted_content |-> b.thinking, summary |-> <<>>]>>
      [] b.type = ToolResult ->
           Concat([i \in 1..Len(b.content) |-> ToolResultContentItems(b.tool_use_id, b.content[i])])
      [] OTHER -> <<InputTextMessage("user", StringifyBlock(b))>>

\* the switch on block.type (lines 249-347)
BlockItems(role, b) ==
    CASE b.type = Text ->
           <<InputTextMessage(IF role = USER THEN "user" ELSE "assistant", b.text)>>
      [] b.type = ToolUse ->
           IF role = ASSISTANT
           THEN <<[type |-> "function_call", call_id |-> b.id, name |-> b.name,
                   arguments |-> JSONstringify(b.input)]>>
           ELSE <<>>
      [] b.type = Thinking ->
           <<[type |-> "reasoning", id |-> b.signature,
              encrypted_content |-> b.thinking, summary |-> <<>>]>>
      [] b.type = ToolResult ->
           Concat([i \in 1..Len(b.content) |-> ToolResultContentItems(b.tool_use_id, b.content[i])])
      [] OTHER -> <<InputTextMessage("user", StringifyBlock(b))>>

\* the body of the loop over messages (lines 211-350)
MessageItems(m) ==
    IF \A i \in 1..Len(m.content) : isUserActionContentBlock(m.content[i])
    THEN LET userActionContentBlocks ==
                 Concat([i \in 1..Len(m.content) |-> m.content[i].content])
         IN  Concat([i \in 1..Len(userActionContentBlocks) |->
                        UserActionItems(userActionContentBlocks[i])])
    ELSE Concat([i \in 1..Len(m.content) |-> BlockItems(m.role, m.content[i])])

formatMessagesForOpenAI(messages) ==
    Concat([i \in 1..Len(messages) |-> MessageItems(messages[i])])

(***************************************************************************)
(* formatMessagesForChat: stored messages -> Chat Completions messages     *)
(***************************************************************************)
\* a variant that also gathers the text of thinking blocks
ChatTextsWithThinking(blocks) ==
    LET kept == SelectSeq(blocks, LAMBDA b : b.type \in {Text, Thinking})
    IN  [i \in 1..Len(kept) |-> IF kept[i].type = Text THEN kept[i].text ELSE kept[i].thinking]

\* blocks.filter(type === Text || text).map(text).filter(Boolean) (lines 368-371)
ChatTexts(blocks) ==
    LET kept == SelectSeq(blocks,
                    LAMBDA b : b.type = Text \/ ("text" \in DOMAIN b /\ b.text # <<>>))
    IN  FilterBoolean([i \in 1..Len(kept) |->
                          IF "text" \in DOMAIN kept[i] THEN kept[i].text ELSE <<>>])

\* the role 'tool' message of one tool result (lines 383-393)
ChatToolMessage(tr) ==
    LET textParts == FilterBoolean([i \in 1..Len(tr.content) |->
                         IF tr.content[i].type = Text THEN tr.content[i].text ELSE <<>>])
    IN  [role |-> "tool", tool_call_id |-> tr.tool_use_id,
         content |-> IF JoinNL(textParts) # <<>> THEN JoinNL(textParts)
                     ELSE <<"tool result">>]

\* the body of the loop over messages (lines 364-396)
ChatMessageItems(m) ==
    LET texts == ChatTexts(m.content)
        results == SelectSeq(m.content, LAMBDA b : b.type = ToolResult)
    IN  (IF Len(texts) > 0
         THEN <<[role |-> IF m.role = USER THEN "user" ELSE "assistant",
                 content |-> JoinNL(texts)]>>
         ELSE <<>>)
        \o [i \in 1..Len(results) |-> ChatToolMessage(results[i])]

formatMessagesForChat(messages, systemPrompt) ==
    (IF systemPrompt # <<>> THEN <<[role |-> "system", content |-> systemPrompt]>> ELSE <<>>)
    \o Concat([i \in 1..Len(messages) |-> ChatMessageItems(messages[i])])

(***************************************************************************)
(* formatOpenAIResponse: Responses API output items -> content blocks      *)
(***************************************************************************)
ReasoningLike == {"file_search_call", "web_search_call", "computer_call", "reasoning"}

\* JSON.stringify(item) of an output item the code does not convert
StringifyItem(item) == <<"{", "\"type\"", ":", item.type, ",", "\"id\"", ":", item.id, "}">>

\* one part of a message item (lines 411-425)
OutputContentBlocks(c) ==
    IF "text" \in DOMAIN c THEN <<TextBlock(c.text)>>
    ELSE IF "refusal" \in DOMAIN c THEN <<TextBlock(<<"Refusal: ">> \o c.refusal)>>
    ELSE <<>>

\* JSON.parse(toolCall.arguments); a missing property is parsed as "undefined"
ParseArguments(item) ==
    IF "arguments" \in DOMAIN item THEN JSONparse(item.arguments) ELSE ParseFail

\* whether converting the item throws (line 435)
ItemThrows(item) == item.type = "function_call" /\ ~ParseArguments(item).ok

\* a variant that drops the parsed arguments of a tool call
ItemBlocksDropInput(item) ==
    CASE item.type = "message" ->
           Concat([i \in 1..Len(item.content) |-> OutputContentBlocks(item.content[i])])
      [] item.type = "function_call" ->
           <<ToolUseBlock(item.call_id, item.name, EmptyObject)>>
      [] item.type \in ReasoningLike ->
           IF "encrypted_content" \in DOMAIN item /\ item.encrypted_content # <<>>
           THEN <<ThinkingBlock(item.encrypted_content, item.id)>>
           ELSE <<>>
      [] OTHER -> <<TextBlock(StringifyItem(item))>>

\* the switch on item.type (lines 407-477), for an item that does not throw
ItemBlocks(item) ==
    CASE item.type = "message" ->
           Concat([i \in 1..Len(item.content) |-> OutputContentBlocks(item.content[i])])
      [] item.type = "function_call" ->
           <<ToolUseBlock(item.call_id, item.name, ParseArguments(item).value)>>
      [] item.type \in ReasoningLike ->
           IF "encrypted_content" \in DOMAIN item /\ item.encrypted_content # <<>>
           THEN <<ThinkingBlock(item.encrypted_content, item.id)>>
           ELSE <<>>
      [] OTHER -> <<TextBlock(StringifyItem(item))>>

\* ok = FALSE stands for the SyntaxError thrown out of the loop
formatOpenAIResponse(response) ==
    IF \E i \in 1..Len(response) : ItemThrows(response[i])
    THEN [ok |-> FALSE, blocks |-> <<>>]
    ELSE [ok |-> TRUE,
          blocks |-> Concat([i \in 1..Len(response) |-> ItemBlocks(response[i])])]

(***************************************************************************)
(* Inputs of the conversions                                               *)
(***************************************************************************)
Args1 == Object(<<[k |-> "\"a\"", v |-> "1"]>>)
Png == ImageBlock("image/png", "iVBORw0")

BlockPool ==
    { TextBlock(<<"hi">>),
      TextBlock(<<>>),
      ToolUseBlock("c1", "computer_click_mouse", Args1),
      ThinkingBlock(<<"enc">>, "rs1"),
      ToolResultBlock("c1", <<TextBlock(<<"ok">>)>>),
      ToolResultBlock("c2", <<Png>>),
      ToolResultBlock("c1", <<Png, TextBlock(<<"done">>)>>),
      UserActionBlock(<<ToolUseBlock("u1", "computer_click_mouse", Args1), Png>>),
      Png }

\* the conversation of messages with the given roles and numbers of blocks whose
\* blocks, in reading order, are `flat`
Assemble(roles, lens, flat) ==
    [i \in 1..Len(roles) |->
        [role |-> roles[i],
         content |-> SubSeq(flat, Sum(SubSeq(lens, 1, i - 1)) + 1,
                                  Sum(SubSeq(lens, 1, i)))]]

SystemPrompts == {<<>>, <<"You are Bytebot.">>}

ArgTexts ==
    { <<"{", "}">>,
      <<"{", "\"a\"", ":", "1", "}">>,
      <<"{", " ", "\"a\"", " ", ":", " ", "1", " ", "}">>,
      <<"{", "\"b\"", ":", "2", ",", "\"a\"", ":", "\"b\"", "}">>,
      <<"{", "\"a\"", ":", "1", ",", "\"a\"", ":", "2", "}">>,
      <<"{", "\"a\"", ":", "null", "}">>,
      <<"{", "\"a\"", ":", "-0", "}">>,
      <<"{", "\"a\"", ":", "1e400", "}">> }

BadArgTexts == { <<>>, <<"{">>, <<"{", "\"a\"", ":", "1", ",", "}">> }

FunctionCall(id, name, a) ==
    [type |-> "function_call", call_id |-> id, name |-> name, arguments |-> a]
FunctionCallNoArgs(id, name) == [type |-> "function_call", call_id |-> id, name |-> name]
Reasoning(id, enc) == [type |-> "reasoning", id |-> id, encrypted_content |-> enc]
OutputMessage(c) == [type |-> "message", id |-> "msg1", content |-> c]

ItemPool ==
    { FunctionCall(id, "computer_click_mouse", a) : id \in {"c1", "c2"}, a \in ArgTexts }
    \cup { FunctionCall("c3", "computer_click_mouse", a) : a \in BadArgTexts }
    \cup { Reasoning("rs1", <<"enc1">>), Reasoning("rs2", <<"enc2">>), Reasoning("rs3", <<>>),
           [type |-> "web_search_call", id |-> "ws1"],
           [type |-> "mcp_call", id |-> "mcp1"],
           OutputMessage(<<[type |-> "output_text", text |-> <<"hi">>],
                           [type |-> "refusal", refusal |-> <<"no">>]>>) }

(***************************************************************************)
(* The call is idle while a conversion is examined on its own              *)
(***************************************************************************)
NoError == [name |-> "none", status |-> 0, message |-> <<>>]
NoReply == [kind |-> "none"]
NoArgs == [systemPrompt |-> <<>>, messages |-> <<>>, model |-> "", useTools |-> FALSE]

CallIdle ==
    /\ pc = "idle" /\ callNo = 0 /\ args = NoArgs /\ aborted = FALSE
    /\ requests = <<>> /\ primary = NoReply /\ fallback = NoReply
    /\ error = NoError /\ outcome = NoReply /\ log = <<>> /\ firstCall = NoReply

(***************************************************************************)
(* generateMessage: configuration, errors, requests and provider replies   *)
(***************************************************************************)
maxTokens == 8192

Bases == { <<>>, <<"https://", "openrouter.ai", "/api/v1">> }

Models == {"o3-2025-04-16", "gpt-4.1-2025-04-14"}

\* String.prototype.includes on a token sequence
Includes(s, tok) == \E i \in 1..Len(s) : s[i] = tok

\* model.startsWith('o')
isReasoning(model) == model \in {"o3-2025-04-16"}

\* /responses/i.test(message)
MentionsResponses(message) ==
    \E i \in 1..Len(message) : message[i] \in {"responses", "Responses", "/v1/responses"}

APIUserAbortError ==
    [name |-> "APIUserAbortError", status |-> 0, message |-> <<"Request was aborted.">>]
NotFoundError ==
    [name |-> "NotFoundError", status |-> 404, message |-> <<"404 ", "Not Found">>]
BadRequestError ==
    [name |-> "BadRequestError", status |-> 400,
     message |-> <<"400 ", "Unsupported endpoint ", "/v1/responses">>]
InternalServerError ==
    [name |-> "InternalServerError", status |-> 500, message |-> <<"500 ", "Internal Server Error">>]
SyntaxError ==
    [name |-> "SyntaxError", status |-> 0, message |-> <<"Unexpected end of JSON input">>]
TypeError ==
    [name |-> "TypeError", status |-> 0,
     message |-> <<"Cannot read properties of undefined (reading '", "forEach", "')">>]
BytebotAgentInterrupt ==
    [name |-> "BytebotAgentInterrupt", status |-> 0, message |-> <<"BytebotAgentInterrupt">>]

\* errors a request rejects with when the provider answers and the signal is not aborted
ProviderErrors == {NotFoundError, BadRequestError, InternalServerError}

\* what an awaited request rejects with: an aborted signal rejects it with
\* APIUserAbortError, otherwise the provider decides
Rejections(sig) == IF sig THEN {APIUserAbortError} ELSE ProviderErrors

\* toolResult.content.forEach / tr.content.map on a tool result stored without content
FormatThrows(messages) ==
    \E i \in 1..Len(messages) : \E j \in 1..Len(messages[i].content) :
        /\ messages[i].content[j].type = ToolResult
        /\ "content" \notin DOMAIN messages[i].content[j]

\* likelyNeedsChatAPI (lines 97-105)
likelyNeedsChatAPI(b, err) ==
    \/ Includes(b, "openrouter.ai")
    \/ err.status = 404
    \/ MentionsResponses(err.message)

\* the argument of openai.responses.create (lines 70-82)
ResponsesRequest(a) ==
    [api |-> "responses.create",
     model |-> a.model,
     max_output_tokens |-> maxTokens,
     input |-> formatMessagesForOpenAI(a.messages),
     instructions |-> a.systemPrompt,
     tools |-> IF a.useTools THEN "openaiTools" ELSE "[]",
     reasoning |-> IF isReasoning(a.model) THEN "medium" ELSE "null",
     store |-> FALSE,
     include |-> IF isReasoning(a.model) THEN <<"reasoning.encrypted_content">> ELSE <<>>]

\* the argument of openai.chat.completions.create (lines 109-130)
ChatRequest(a) ==
    [api |-> "chat.completions.create",
     model |-> a.model,
     messages |-> formatMessagesForChat(a.messages, a.systemPrompt),
     tools |-> IF a.useTools THEN "chatTools" ELSE "undefined",
     tool_choice |-> IF a.useTools THEN "auto" ELSE "undefined"]

\* x.usage?.f || 0
UsageOr0(reply, f) ==
    IF "usage" \in DOMAIN reply /\ f \in DOMAIN reply.usage THEN reply.usage[f] ELSE 0

\* a variant that reads the Responses field names on the Chat Completions reply
ChatUsageWrongFields(completion) ==
    [inputTokens |-> UsageOr0(completion, "input_tokens"),
     outputTokens |-> UsageOr0(completion, "output_tokens"),
     totalTokens |-> UsageOr0(completion, "total_tokens")]

\* tokenUsage of the primary path (lines 86-90)
ResponseUsage(response) ==
    [inputTokens |-> UsageOr0(response, "input_tokens"),
     outputTokens |-> UsageOr0(response, "output_tokens"),
     totalTokens |-> UsageOr0(response, "total_tokens")]

\* tokenUsage of the fallback path (lines 181-185)
ChatUsage(completion) ==
    [inputTokens |-> UsageOr0(completion, "prompt_tokens"),
     outputTokens |-> UsageOr0(completion, "completion_tokens"),
     totalTokens |-> UsageOr0(completion, "total_tokens")]

\* finalText of a chat message (lines 138-149)
ChatFinalText(msg) ==
    IF "content" \notin DOMAIN msg THEN <<>>
    ELSE IF msg.content.kind = "string" THEN msg.content.text
    ELSE JoinNL(FilterBoolean([i \in 1..Len(msg.content.parts) |->
                  IF "text" \in DOMAIN msg.content.parts[i]
                  THEN msg.content.parts[i].text ELSE <<>>]))

\* one tool call of a chat message (lines 161-175)
ChatToolUse(tc) ==
    LET name == tc.function.name
        parsed == IF "arguments" \in DOMAIN tc.function /\ tc.function.arguments # <<>>
                  THEN JSONparse(tc.function.arguments) ELSE ParseFail
    IN  ToolUseBlock(IF tc.id # "" THEN tc.id ELSE IF name # "" THEN name ELSE "tool_call",
                     name,
                     IF parsed.ok THEN parsed.value ELSE EmptyObject)

\* the content blocks built from a chat completion (lines 132-177)
ChatCompletionBlocks(completion) ==
    IF Len(completion.choices) = 0 \/ "message" \notin DOMAIN completion.choices[1]
    THEN <<>>
    ELSE LET msg == completion.choices[1].message
             finalText == ChatFinalText(msg)
         IN  (IF finalText # <<>> THEN <<TextBlock(finalText)>> ELSE <<>>)
             \o (IF "tool_calls" \in DOMAIN msg
                 THEN [i \in 1..Len(msg.tool_calls) |-> ChatToolUse(msg.tool_calls[i])]
                 ELSE <<>>)

Returned(blocks, usage) == [kind |-> "returned", contentBlocks |-> blocks, tokenUsage |-> usage]
Thrown(err) == [kind |-> "thrown", error |-> err]

(***************************************************************************)
(* Arguments and provider replies of the modelled calls                    *)
(***************************************************************************)
CallMessages ==
    { <<[role |-> USER, content |-> <<TextBlock(<<"open the browser">>)>>],
        [role |-> ASSISTANT,
         content |-> <<ToolUseBlock("c1", "computer_screenshot", EmptyObject)>>],
        [role |-> USER, content |-> <<ToolResultBlock("c1", <<Png>>)>>]>>,
      <<[role |-> USER, content |-> <<[type |-> ToolResult, tool_use_id |-> "c1"]>>]>> }

Responses ==
    { [output |-> <<OutputMessage(<<[type |-> "output_text", text |-> <<"hi">>]>>)>>,
       usage |-> [input_tokens |-> 3, output_tokens |-> 5, total_tokens |-> 8]],
      [output |-> <<Reasoning("rs1", <<"enc1">>),
                    FunctionCall("c1", "computer_click_mouse", <<"{", "\"a\"", ":", "1", "}">>)>>],
      [output |-> <<FunctionCall("c2", "computer_click_mouse", <<"{">>)>>,
       usage |-> [input_tokens |-> 3, output_tokens |-> 5, total_tokens |-> 8]],
      [output |-> <<FunctionCallNoArgs("c3", "computer_screenshot")>>] }

ChatToolCall(id, name, a) == [id |-> id, function |-> [name |-> name, arguments |-> a]]

Completions ==
    { [choices |-> <<[message |-> [content |-> [kind |-> "string", text |-> <<"hello">>]]]>>,
       usage |-> [prompt_tokens |-> 7, completion_tokens |-> 11, total_tokens |-> 18]],
      [choices |-> <<[message |->
           [tool_calls |-> <<ChatToolCall("t1", "computer_click_mouse",
                                          <<"{", "\"a\"", ":", "1", "}">>)>>]]>>],
      [choices |-> <<[message |->
           [content |-> [kind |-> "array",
                         parts |-> <<[text |-> <<"a">>], [type |-> "image_url"], [text |-> <<"b">>]>>],
            tool_calls |-> <<ChatToolCall("", "computer_click_mouse", <<"{">>),
                             [id |-> "t2", function |-> [name |-> "computer_screenshot"]]>>]]>>,
       usage |-> [prompt_tokens |-> 7, completion_tokens |-> 11, total_tokens |-> 18]],
      [choices |-> <<>>] }

(***************************************************************************)
(* generateMessage as a state machine: one step from each await to the     *)
(* next await, return or throw                                             *)
(***************************************************************************)
\* lines 194-202: what reaches the caller once no fallback result was returned
Rethrow(err, lg) ==
    IF err.name = "APIUserAbortError"
    THEN [pc |-> "done", outcome |-> Thrown(BytebotAgentInterrupt),
          log |-> Append(lg, [level |-> "log", text |-> <<"OpenAI API call aborted">>])]
    ELSE [pc |-> "done", outcome |-> Thrown(err),
          log |-> Append(lg, [level |-> "error",
                              text |-> <<"Error sending message to OpenAI: ">> \o err.message])]

FallbackWarning(err) ==
    [level |-> "warn", text |-> <<"Chat Completions fallback failed: ">> \o err.message]

\* a variant whose catch block sends the Responses request again before falling back
CatchRetriesPrimary(a, err, reqs) ==
    IF likelyNeedsChatAPI(base, err)
    THEN IF FormatThrows(a.messages)
         THEN Rethrow(err, <<FallbackWarning(TypeError)>>)
                  @@ [requests |-> reqs, fallback |-> [kind |-> "notsent", error |-> TypeError]]
         ELSE [pc |-> "awaitFallback", outcome |-> NoReply, log |-> <<>>,
               requests |-> reqs \o <<ResponsesRequest(a), ChatRequest(a)>>,
               fallback |-> NoReply]
    ELSE Rethrow(err, <<>>) @@ [requests |-> reqs, fallback |-> NoReply]

\* lines 92-130 and 187-203: the catch block, up to the await of the fallback
\* request or to the throw
Catch(a, err, reqs) ==
    IF likelyNeedsChatAPI(base, err)
    THEN IF FormatThrows(a.messages)
         THEN Rethrow(err, <<FallbackWarning(TypeError)>>)
                  @@ [requests |-> reqs, fallback |-> [kind |-> "notsent", error |-> TypeError]]
         ELSE [pc |-> "awaitFallback", outcome |-> NoReply, log |-> <<>>,
               requests |-> Append(reqs, ChatRequest(a)), fallback |-> NoReply]
    ELSE Rethrow(err, <<>>) @@ [requests |-> reqs, fallback |-> NoReply]

\* the record kept of a completed call
CallRecord(a, p, f, reqs, out) ==
    [kind |-> "call", args |-> a, primary |-> p, fallback |-> f, requests |-> reqs,
     outcome |-> out]

Remember(done, a, p, f, reqs, out) ==
    firstCall' = IF done /\ firstCall = NoReply THEN CallRecord(a, p, f, reqs, out)
                 ELSE firstCall

Init ==
    /\ base \in Bases
    /\ CallIdle
    /\ fn = "none" /\ input = <<>> /\ output = <<>>

\* generateMessage is called: lines 65-82, or 65-67 and the catch block when
\* formatting throws.  Calls after the first repeat the first call's arguments.
Call(sp, ms, mdl, ut, sig) ==
    /\ pc \in {"idle", "done"}
    /\ callNo < MaxCalls
    /\ LET a == [systemPrompt |-> sp, messages |-> ms, model |-> mdl, useTools |-> ut]
       IN  /\ firstCall # NoReply => a = firstCall.args
           /\ callNo' = callNo + 1
           /\ args' = a
           /\ aborted' = sig
           /\ IF FormatThrows(ms)
              THEN LET r == Catch(a, TypeError, <<>>)
                       p == [kind |-> "notsent", error |-> TypeError]
                   IN  /\ primary' = p /\ error' = TypeError
                       /\ pc' = r.pc /\ requests' = r.requests /\ fallback' = r.fallback
                       /\ outcome' = r.outcome /\ log' = r.log
                       /\ Remember(r.pc = "done", a, p, r.fallback, r.requests, r.outcome)
              ELSE /\ pc' = "awaitPrimary"
                   /\ requests' = <<ResponsesRequest(a)>>
                   /\ primary' = NoReply /\ fallback' = NoReply /\ error' = NoError
                   /\ outcome' = NoReply /\ log' = <<>>
                   /\ UNCHANGED firstCall
    /\ UNCHANGED <<base, convVars>>

\* the caller aborts the signal while a request is awaited
AbortSignal ==
    /\ pc \in {"awaitPrimary", "awaitFallback"}
    /\ ~aborted
    /\ aborted' = TRUE
    /\ UNCHANGED <<base, pc, callNo, args, requests, primary, fallback, error, outcome,
                   log, firstCall, convVars>>

\* a variant that pushes the reply onto the caller's messages array
PrimarySucceedsPushesReply(response) ==
    /\ pc = "awaitPrimary"
    /\ ~aborted
    /\ LET p == [kind |-> "ok", response |-> response]
           f == formatOpenAIResponse(response.output)
       IN  /\ primary' = p
           /\ IF f.ok
              THEN /\ pc' = "done"
                   /\ outcome' = Returned(f.blocks, ResponseUsage(response))
                   /\ args' = [args EXCEPT !.messages =
                                  Append(@, [role |-> ASSISTANT, content |-> f.blocks])]
                   /\ UNCHANGED <<requests, fallback, error, log>>
                   /\ Remember(TRUE, args, p, fallback, requests, outcome')
              ELSE LET r == Catch(args, SyntaxError, requests)
                   IN  /\ error' = SyntaxError
                       /\ pc' = r.pc /\ requests' = r.requests /\ fallback' = r.fallback
                       /\ outcome' = r.outcome /\ log' = r.log
                       /\ UNCHANGED args
                       /\ Remember(r.pc = "done", args, p, r.fallback, r.requests, r.outcome)
    /\ UNCHANGED <<base, callNo, aborted, convVars>>

\* responses.create resolves: lines 84-91, or the catch block when the conversion throws
PrimarySucceeds(response) ==
    /\ pc = "awaitPrimary"
    /\ ~aborted
    /\ LET p == [kind |-> "ok", response |-> response]
           f == formatOpenAIResponse(response.output)
       IN  /\ primary' = p
           /\ IF f.ok
              THEN /\ pc' = "done"
                   /\ outcome' = Returned(f.blocks, ResponseUsage(response))
                   /\ UNCHANGED <<requests, fallback, error, log>>
                   /\ Remember(TRUE, args, p, fallback, requests, outcome')
              ELSE LET r == Catch(args, SyntaxError, requests)
                   IN  /\ error' = SyntaxError
                       /\ pc' = r.pc /\ requests' = r.requests /\ fallback' = r.fallback
                       /\ outcome' = r.outcome /\ log' = r.log
                       /\ Remember(r.pc = "done", args, p, r.fallback, r.requests, r.outcome)
    /\ UNCHANGED <<base, callNo, args, aborted, convVars>>

\* responses.create rejects: the catch block
PrimaryFails(err) ==
    /\ pc = "awaitPrimary"
    /\ err \in Rejections(aborted)
    /\ LET p == [kind |-> "error", error |-> err]
           r == Catch(args, err, requests)
       IN  /\ primary' = p /\ error' = err
           /\ pc' = r.pc /\ requests' = r.requests /\ fallback' = r.fallback
           /\ outcome' = r.outcome /\ log' = r.log
           /\ Remember(r.pc = "done", args, p, r.fallback, r.requests, r.outcome)
    /\ UNCHANGED <<base, callNo, args, aborted, convVars>>

\* chat.completions.create resolves: lines 132-186
FallbackSucceeds(completion) ==
    /\ pc = "awaitFallback"
    /\ ~aborted
    /\ LET f == [kind |-> "ok", completion |-> completion]
       IN  /\ fallback' = f
           /\ pc' = "done"
           /\ outcome' = Returned(ChatCompletionBlocks(completion), ChatUsage(completion))
           /\ Remember(TRUE, args, primary, f, requests, outcome')
    /\ UNCHANGED <<base, callNo, args, aborted, requests, primary, error, log, convVars>>

\* a variant that lets the fallback's own error reach the caller
FallbackFailsThrowsOwn(err) ==
    /\ pc = "awaitFallback"
    /\ err \in Rejections(aborted)
    /\ LET f == [kind |-> "error", error |-> err]
           r == Rethrow(err, Append(log, FallbackWarning(err)))
       IN  /\ fallback' = f
           /\ pc' = r.pc /\ outcome' = r.outcome /\ log' = r.log
           /\ Remember(TRUE, args, primary, f, requests, r.outcome)
    /\ UNCHANGED <<base, callNo, args, aborted, requests, primary, error, convVars>>

\* chat.completions.create rejects: lines 187-203
FallbackFails(err) ==
    /\ pc = "awaitFallback"
    /\ err \in Rejections(aborted)
    /\ LET f == [kind |-> "error", error |-> err]
           r == Rethrow(error, Append(log, FallbackWarning(err)))
       IN  /\ fallback' = f
           /\ pc' = r.pc /\ outcome' = r.outcome /\ log' = r.log
           /\ Remember(TRUE, args, primary, f, requests, r.outcome)
    /\ UNCHANGED <<base, callNo, args, aborted, requests, primary, error, convVars>>

Next ==
    \/ \E sp \in SystemPrompts, ms \in CallMessages, mdl \in Models,
          ut \in BOOLEAN, sig \in BOOLEAN : Call(sp, ms, mdl, ut, sig)
    \/ AbortSignal
    \/ \E err \in ProviderErrors \cup {APIUserAbortError} : PrimaryFails(err)
    \/ \E response \in Responses : PrimarySucceeds(response)
    \/ \E completion \in Completions : FallbackSucceeds(completion)
    \/ \E err \in ProviderErrors \cup {APIUserAbortError} : FallbackFails(err)

Spec == Init /\ [][Next]_vars

(***************************************************************************)
(* SpecOpenAI: formatMessagesForOpenAI applied to a generated conversation *)
(***************************************************************************)
InitOpenAI ==
    /\ base = <<>> /\ CallIdle
    /\ fn = "none" /\ output = <<>>
    /\ \E k \in 0..MaxMsgs :
         \E roles \in [1..k -> Roles], lens \in [1..k -> 0..MaxBlocks] :
            /\ Sum(lens) <= MaxBlocks
            /\ \E flat \in [1..Sum(lens) -> BlockPool] :
                  input = [messages |-> Assemble(roles, lens, flat)]

ApplyFormatOpenAI ==
    /\ fn = "none"
    /\ fn' = "formatMessagesForOpenAI"
    /\ output' = formatMessagesForOpenAI(input.messages)
    /\ UNCHANGED <<input, callVars>>

SpecOpenAI == InitOpenAI /\ [][ApplyFormatOpenAI]_vars

(***************************************************************************)
(* SpecChat: formatMessagesForChat applied to a generated conversation     *)
(***************************************************************************)
InitChat ==
    /\ base = <<>> /\ CallIdle
    /\ fn = "none" /\ output = <<>>
    /\ \E k \in 0..MaxMsgs, sp \in SystemPrompts :
         \E roles \in [1..k -> Roles], lens \in [1..k -> 0..MaxBlocks] :
            /\ Sum(lens) <= MaxBlocks
            /\ \E flat \in [1..Sum(lens) -> BlockPool] :
                  input = [messages |-> Assemble(roles, lens, flat), systemPrompt |-> sp]

ApplyFormatChat ==
    /\ fn = "none"
    /\ fn' = "formatMessagesForChat"
    /\ output' = formatMessagesForChat(input.messages, input.systemPrompt)
    /\ UNCHANGED <<input, callVars>>

SpecChat == InitChat /\ [][ApplyFormatChat]_vars

(***************************************************************************)
(* SpecRoundTrip: a provider output converted by formatOpenAIResponse,     *)
(* stored as one ASSISTANT message and converted by formatMessagesForOpenAI*)
(***************************************************************************)
InitRoundTrip ==
    /\ base = <<>> /\ CallIdle
    /\ fn = "none" /\ output = <<>>
    /\ \E n \in 0..MaxItems : \E response \in [1..n -> ItemPool] :
          input = [response |-> response]

ApplyFormatResponse ==
    /\ fn = "none"
    /\ fn' = "formatOpenAIResponse"
    /\ output' = formatOpenAIResponse(input.response)
    /\ UNCHANGED <<input, callVars>>

ApplyStoreAndFormat ==
    /\ fn = "formatOpenAIResponse" /\ output.ok
    /\ fn' = "roundTrip"
    /\ output' = formatMessagesForOpenAI(<<[role |-> ASSISTANT, content |-> output.blocks]>>)
    /\ UNCHANGED <<input, callVars>>

NextRoundTrip == ApplyFormatResponse \/ ApplyStoreAndFormat

SpecRoundTrip == InitRoundTrip /\ [][NextRoundTrip]_vars

(***************************************************************************)
(* Properties of the conversions                                           *)
(***************************************************************************)
\* the blocks of a conversation in reading order, each with its message's role
FlatBlocks(messages) ==
    Concat([i \in 1..Len(messages) |->
              [j \in 1..Len(messages[i].content) |->
                 [role |-> messages[i].role, block |-> messages[i].content[j]]]])

\* the part of `out` that follows the first `off` items and is `n` long
Segment(out, off, n) == SubSeq(out, off + 1, off + n)

IsInputImageMessage(item) ==
    /\ item.type = "message" /\ item.role = "user"
    /\ Len(item.content) = 1 /\ item.content[1].type = "input_image"

\* number of items C8 states for one content of a tool result
C8_ContentCount(c) == IF c.type = Text THEN 1 ELSE IF c.type = Image THEN 2 ELSE 0

\* number of items C8 states for one block
C8_Count(rb) ==
    CASE rb.block.type = Text -> 1
      [] rb.block.type = ToolUse -> IF rb.role = ASSISTANT THEN 1 ELSE 0
      [] rb.block.type = Thinking -> 1
      [] rb.block.type = ToolResult ->
           Sum([k \in 1..Len(rb.block.content) |-> C8_ContentCount(rb.block.content[k])])

\* what C8 states about the items one block yields
C8_SegmentOK(rb, seg) ==
    CASE rb.block.type = Text ->
           /\ seg[1].type = "message"
           /\ seg[1].role = (IF rb.role = USER THEN "user" ELSE "assistant")
           /\ seg[1].content[1].text = rb.block.text
      [] rb.block.type = ToolUse ->
           rb.role = ASSISTANT =>
               /\ seg[1].type = "function_call"
               /\ seg[1].call_id = rb.block.id
      [] rb.block.type = Thinking -> seg[1].type = "reasoning"
      [] rb.block.type = ToolResult ->
           \A k \in 1..Len(rb.block.content) :
               LET c == rb.block.content[k]
                   off == Sum([h \in 1..(k - 1) |-> C8_ContentCount(rb.block.content[h])])
               IN  /\ c.type = Text =>
                       /\ seg[off + 1].type = "function_call_output"
                       /\ seg[off + 1].call_id = rb.block.tool_use_id
                   /\ c.type = Image =>
                       /\ seg[off + 1].type = "function_call_output"
                       /\ seg[off + 1].call_id = rb.block.tool_use_id
                       /\ seg[off + 1].output = <<"screenshot">>
                       /\ IsInputImageMessage(seg[off + 2])

\* the conversations C8 speaks of: every block is of one of the four types it names
C8_Covered(messages) ==
    \A i \in 1..Len(messages) : \A j \in 1..Len(messages[i].content) :
        messages[i].content[j].type \in {Text, ToolUse, Thinking, ToolResult}

\* C8: formatMessagesForOpenAI keeps the order of messages and of blocks, and each
\* Text, ToolUse, Thinking and ToolResult block yields exactly the items stated for
\* its type and its message's role: the output is the concatenation, block by block
\* in reading order, of one message item (role 'user' iff USER) per Text block, one
\* function_call (call_id = block id) per ToolUse block of an ASSISTANT message and
\* nothing for one of a USER message, one reasoning item per Thinking block, and per
\* ToolResult content one function_call_output (Text) or a 'screenshot'
\* function_call_output followed by a user input_image message (Image).
C8_FormatOpenAIOrderAndMapping ==
    (fn = "formatMessagesForOpenAI" /\ C8_Covered(input.messages)) =>
        LET fb == FlatBlocks(input.messages)
            counts == [p \in 1..Len(fb) |-> C8_Count(fb[p])]
        IN  /\ Len(output) = Sum(counts)
            /\ \A p \in 1..Len(fb) :
                   C8_SegmentOK(fb[p],
                       Segment(output, Sum(SubSeq(counts, 1, p - 1)), counts[p]))

\* a USER message holding a tool result with an image and a text, followed by an
\* ASSISTANT message holding a tool use, has been converted into four items
C8_Witness ==
    /\ fn = "formatMessagesForOpenAI" /\ C8_Covered(input.messages)
    /\ Len(input.messages) = 2
    /\ input.messages[1].role = USER /\ input.messages[2].role = ASSISTANT
    /\ Len(input.messages[1].content) = 1 /\ Len(input.messages[2].content) = 1
    /\ input.messages[1].content[1] = ToolResultBlock("c1", <<Png, TextBlock(<<"done">>)>>)
    /\ input.messages[2].content[1].type = ToolUse
    /\ Len(output) = 4

\* whether a message has non-empty text
C9_HasText(m) ==
    \E j \in 1..Len(m.content) : m.content[j].type = Text /\ m.content[j].text # <<>>

C9_ToolResults(m) == SelectSeq(m.content, LAMBDA b : b.type = ToolResult)

C9_Count(m) == (IF C9_HasText(m) THEN 1 ELSE 0) + Len(C9_ToolResults(m))

\* what C9 states about the messages one input message yields
C9_SegmentOK(m, seg) ==
    LET t == IF C9_HasText(m) THEN 1 ELSE 0
        trs == C9_ToolResults(m)
    IN  /\ C9_HasText(m) =>
              /\ seg[1].role = (IF m.role = USER THEN "user" ELSE "assistant")
              /\ seg[1].content # <<>>
        /\ \A k \in 1..Len(trs) :
              /\ seg[t + k].role = "tool"
              /\ seg[t + k].tool_call_id = trs[k].tool_use_id
              /\ seg[t + k].content # <<>>
              /\ (\A h \in 1..Len(trs[k].content) : trs[k].content[h].type # Text)
                     => seg[t + k].content = <<"tool result">>
              /\ (\A h \in 1..Len(trs[k].content) : trs[k].content[h].type = Text)
                     => seg[t + k].content =
                            JoinNL([h \in 1..Len(trs[k].content) |-> trs[k].content[h].text])

\* C9: formatMessagesForChat yields one leading 'system' message iff the system prompt
\* is non-empty, then per input message in order one text message (role 'user' iff
\* USER) exactly when the message has non-empty text, followed by one 'tool' message
\* per ToolResult block with tool_call_id = tool_use_id and non-empty content (the
\* joined text parts, 'tool result' when there are none), and no other message.
C9_FormatChatShape ==
    fn = "formatMessagesForChat" =>
        LET sys == IF input.systemPrompt # <<>> THEN 1 ELSE 0
            counts == [i \in 1..Len(input.messages) |-> C9_Count(input.messages[i])]
        IN  /\ Len(output) = sys + Sum(counts)
            /\ (sys = 1) => (output[1].role = "system" /\ output[1].content = input.systemPrompt)
            /\ \A q \in (sys + 1)..Len(output) : output[q].role # "system"
            /\ \A i \in 1..Len(input.messages) :
                   C9_SegmentOK(input.messages[i],
                       Segment(output, sys + Sum(SubSeq(counts, 1, i - 1)), counts[i]))

\* a system prompt, a message with text and a tool result without text parts, and a
\* message holding only a thinking block have been converted
C9_Witness ==
    /\ fn = "formatMessagesForChat"
    /\ input.systemPrompt # <<>>
    /\ Len(input.messages) = 2
    /\ input.messages[1].role = USER
    /\ input.messages[1].content = <<ToolResultBlock("c2", <<Png>>)>>
    /\ input.messages[2].content = <<ThinkingBlock(<<"enc">>, "rs1")>>
    /\ Len(output) = 2
    /\ output[2].content = <<"tool result">>

\* the provider outputs C4 speaks of: function calls with JSON arguments and
\* reasoning items with non-empty encrypted content
C4_Covered(response) ==
    \A i \in 1..Len(response) :
        \/ /\ response[i].type = "function_call"
           /\ "arguments" \in DOMAIN response[i]
           /\ JSONparse(response[i].arguments).ok
        \/ /\ response[i].type = "reasoning"
           /\ response[i].encrypted_content # <<>>

\* a primitive up to ===, under which negative zero equals zero
UpToStrictEquality(p) == IF p = "-0" THEN "0" ELSE p

\* two parsed JSON values are the same value: primitives equal under ===, or objects
\* with the same keys bound to such primitives
SameValue(a, b) ==
    /\ a.kind = b.kind
    /\ UpToStrictEquality(a.prim) = UpToStrictEquality(b.prim)
    /\ {<<a.members[i].k, UpToStrictEquality(a.members[i].v)>> : i \in 1..Len(a.members)}
         = {<<b.members[i].k, UpToStrictEquality(b.members[i].v)>> : i \in 1..Len(b.members)}

\* what C4 states about one item and the item it comes back as
C4_ItemKept(before, after) ==
    /\ after.type = before.type
    /\ before.type = "function_call" =>
          /\ after.call_id = before.call_id
          /\ after.name = before.name
          /\ JSONparse(after.arguments).ok
          /\ SameValue(JSONparse(after.arguments).value, JSONparse(before.arguments).value)
    /\ before.type = "reasoning" =>
          /\ after.id = before.id
          /\ after.encrypted_content = before.encrypted_content

\* every number literal of the arguments is a finite double
C4_Finite(response) ==
    \A i \in 1..Len(response) :
        response[i].type = "function_call" =>
            LET v == JSONparse(response[i].arguments).value
            IN  /\ v.prim # "Infinity"
                /\ \A k \in 1..Len(v.members) : v.members[k].v # "Infinity"

\* C4 as stated: for every provider output made of function_call items with JSON
\* arguments and reasoning items with non-empty encrypted_content, converting with
\* formatOpenAIResponse and converting the blocks back as one ASSISTANT message
\* yields items of the same types in the same order with the same call_id, name,
\* arguments value, id and encrypted_content.
C4_RoundTripAsStated ==
    (fn = "roundTrip" /\ C4_Covered(input.response)) =>
        /\ Len(output) = Len(input.response)
        /\ \A i \in 1..Len(output) : C4_ItemKept(input.response[i], output[i])

\* C4, amended: the round trip of C4 holds for every such provider output whose
\* arguments hold no number literal that overflows to Infinity.
C4_RoundTripFinite ==
    (fn = "roundTrip" /\ C4_Covered(input.response) /\ C4_Finite(input.response)) =>
        /\ Len(output) = Len(input.response)
        /\ \A i \in 1..Len(output) : C4_ItemKept(input.response[i], output[i])

\* a reasoning item followed by a function call went through the round trip, and the
\* arguments came back as a text other than the provider's
C4_Witness ==
    /\ fn = "roundTrip" /\ C4_Covered(input.response) /\ C4_Finite(input.response)
    /\ Len(input.response) = 2
    /\ input.response[1].type = "reasoning"
    /\ input.response[2].type = "function_call"
    /\ output[2].arguments # input.response[2].arguments
    /\ Len(JSONparse(input.response[2].arguments).value.members) = 1

(***************************************************************************)
(* Properties of generateMessage                                           *)
(***************************************************************************)
Count(reqs, api) == Cardinality({i \in 1..Len(reqs) : reqs[i].api = api})

SentFallback == Count(requests, "chat.completions.create") > 0

\* C1: a call issues at most one responses.create request and at most one
\* chat.completions.create request, at most two requests in all, and the
\* chat.completions.create request comes after the responses.create attempt has
\* failed (the catch block holds its error) and is the last request.
C1_AtMostOnePrimaryOneFallback ==
    /\ Len(requests) <= 2
    /\ Count(requests, "responses.create") <= 1
    /\ Count(requests, "chat.completions.create") <= 1
    /\ \A i \in 1..Len(requests) :
           requests[i].api = "chat.completions.create" =>
               /\ error # NoError
               /\ primary.kind # "none"
               /\ i = Len(requests)

\* a call has ended after issuing both requests
C1_Witness ==
    /\ pc = "done"
    /\ Len(requests) = 2
    /\ requests[1].api = "responses.create"
    /\ requests[2].api = "chat.completions.create"

Cancelled(reply) == reply.kind = "error" /\ reply.error = APIUserAbortError

\* C2: whenever the primary or the fallback request of a call was cancelled through
\* the abort signal, the call ends by throwing BytebotAgentInterrupt.
C2_CancelledCallThrowsInterrupt ==
    (pc = "done" /\ (Cancelled(primary) \/ Cancelled(fallback))) =>
        outcome = Thrown(BytebotAgentInterrupt)

\* C3: the fallback request is issued only if the responses.create request was sent
\* and rejected with an unavailability indication (status 404, a message mentioning
\* 'responses', or a base URL containing 'openrouter.ai'); never after a successful
\* primary request, a cancelled one, or an error raised locally.
C3_FallbackOnlyWhenPrimaryUnavailable ==
    SentFallback =>
        /\ primary.kind = "error"
        /\ primary.error # APIUserAbortError
        /\ \/ primary.error.status = 404
           \/ MentionsResponses(primary.error.message)
           \/ Includes(base, "openrouter.ai")

\* the counts the provider reported in a reply, 0 for each it did not report
C5_Reported(reply, inF, outF, totF) ==
    [inputTokens |-> IF "usage" \in DOMAIN reply THEN reply.usage[inF] ELSE 0,
     outputTokens |-> IF "usage" \in DOMAIN reply THEN reply.usage[outF] ELSE 0,
     totalTokens |-> IF "usage" \in DOMAIN reply THEN reply.usage[totF] ELSE 0]

\* C5: whenever a call returns, its tokenUsage equals the counts reported by the
\* reply that produced the returned blocks (the chat completion when the fallback
\* answered, the Responses reply otherwise), 0 where none was reported, and never
\* the counts of a failed primary attempt.
C5_TokenCountsPassThrough ==
    (pc = "done" /\ outcome.kind = "returned") =>
        IF fallback.kind = "ok"
        THEN outcome.tokenUsage =
                 C5_Reported(fallback.completion, "prompt_tokens", "completion_tokens",
                             "total_tokens")
        ELSE /\ primary.kind = "ok"
             /\ outcome.tokenUsage =
                    C5_Reported(primary.response, "input_tokens", "output_tokens",
                                "total_tokens")

\* a call returned the fallback's counts after a primary reply that reported other
\* counts but could not be converted
C5_Witness ==
    /\ pc = "done" /\ outcome.kind = "returned"
    /\ primary.kind = "ok" /\ "usage" \in DOMAIN primary.response
    /\ fallback.kind = "ok" /\ "usage" \in DOMAIN fallback.completion
    /\ outcome.tokenUsage = [inputTokens |-> 7, outputTokens |-> 11, totalTokens |-> 18]

\* a call that has ended got the replies the first call got
C6_SameReplies ==
    /\ pc = "done" /\ firstCall # NoReply
    /\ args = firstCall.args
    /\ primary = firstCall.primary
    /\ fallback = firstCall.fallback

\* a step of a call in progress changes neither the arguments nor the configuration
C6_InputsKept ==
    pc \in {"awaitPrimary", "awaitFallback"} => (args' = args /\ base' = base)

\* C6: a call changes neither its arguments nor the service's configuration, and a
\* later call with the arguments and the provider replies of the first call issues
\* the same requests and ends with the same outcome as the first call did.
C6_NoStateBetweenCalls ==
    /\ [][C6_InputsKept]_vars
    /\ [](C6_SameReplies =>
            (requests = firstCall.requests /\ outcome = firstCall.outcome))

\* a second call has ended after falling back, with the replies of the first call
C6_Witness ==
    /\ callNo = 2 /\ C6_SameReplies
    /\ Len(requests) = 2
    /\ outcome.kind = "returned"

\* C7: when the fallback request succeeds the call returns the blocks built from the
\* chat completion; when the fallback fails its error is logged as a warning and the
\* call throws BytebotAgentInterrupt if the primary attempt's error was a user abort
\* and the primary attempt's error itself otherwise.
C7_FallbackOutcome ==
    /\ (pc = "done" /\ fallback.kind = "ok") =>
           /\ outcome.kind = "returned"
           /\ outcome.contentBlocks = ChatCompletionBlocks(fallback.completion)
    /\ (pc = "done" /\ fallback.kind \in {"error", "notsent"}) =>
           /\ \E i \in 1..Len(log) : log[i] = FallbackWarning(fallback.error)
           /\ primary.kind = "error" => error = primary.error
           /\ outcome = Thrown(IF error = APIUserAbortError THEN BytebotAgentInterrupt
                               ELSE error)

\* a call whose primary request met a 404 and whose fallback request met another
\* error has thrown the 404
C7_Witness ==
    /\ pc = "done"
    /\ primary.kind = "error" /\ primary.error = NotFoundError
    /\ fallback.kind = "error" /\ fallback.error = InternalServerError
    /\ outcome = Thrown(NotFoundError)

\* a tool call whose arguments are missing or are not valid JSON
C10_MalformedItem(item) ==
    item.type = "function_call"
    /\ ("arguments" \notin DOMAIN item \/ ~JSONparse(item.arguments).ok)

C10_MalformedToolCall(tc) ==
    "arguments" \notin DOMAIN tc.function \/ ~JSONparse(tc.function.arguments).ok

\* C10: a provider tool call whose arguments are missing or are not valid JSON becomes
\* a tool-use block with input {} on both paths: a Responses reply holding one makes
\* the call return after its single request, and so does a chat completion holding
\* one after the fallback request.
C10_MalformedToolCallTolerated ==
    /\ (primary.kind = "ok"
        /\ \E i \in 1..Len(primary.response.output) :
               C10_MalformedItem(primary.response.output[i])) =>
           /\ pc = "done"
           /\ outcome.kind = "returned"
           /\ Len(requests) = 1
           /\ \A i \in 1..Len(primary.response.output) :
                  C10_MalformedItem(primary.response.output[i]) =>
                      \E j \in 1..Len(outcome.contentBlocks) :
                          /\ outcome.contentBlocks[j].type = ToolUse
                          /\ outcome.contentBlocks[j].id = primary.response.output[i].call_id
                          /\ outcome.contentBlocks[j].input = EmptyObject
    /\ (fallback.kind = "ok"
        /\ Len(fallback.completion.choices) > 0
        /\ "tool_calls" \in DOMAIN fallback.completion.choices[1].message) =>
           /\ pc = "done"
           /\ outcome.kind = "returned"
           /\ \A i \in 1..Len(fallback.completion.choices[1].message.tool_calls) :
                  C10_MalformedToolCall(fallback.completion.choices[1].message.tool_calls[i]) =>
                      \E j \in 1..Len(outcome.contentBlocks) :
                          /\ outcome.contentBlocks[j].type = ToolUse
                          /\ outcome.contentBlocks[j].name =
                                 fallback.completion.choices[1].message.tool_calls[i].function.name
                          /\ outcome.contentBlocks[j].input = EmptyObject

====
